---- MODULE Spec2Model ----
(***************************************************************************)
(* The storyboard pipeline of app.py: the StoryboardFiles registry, the    *)
(* story compiler, the image and audio synthesizers, the video assembler   *)
(* and generate_storyboard, which sequences them.  External services and   *)
(* the file system are inputs: every call of one picks its outcome.        *)
(***************************************************************************)
EXTENDS Integers, Sequences, FiniteSets, TLC

\* ---- bounds of the model --------------------------------------------
MaxScenes == 2
MaxRuns == 2
MaxKey == 3
MaxLen == 2

\* ---- program constants ----------------------------------------------
DefaultDuration == 5
CardDuration == 3
AudioPadding == 1
MinClips == 2
HashModulus == 100000

\* Python's None, for paths
None == <<>>
\* an exception that left the function
Raised == <<"raised">>

\* os.path.abspath(f"scene_{n}.png"), os.path.abspath(f"narration_{n}.mp3")
ScenePath(scene_number) == <<"scene.png", scene_number>>
NarrationPath(scene_number) == <<"narration.mp3", scene_number>>
OutputPath == <<"final_storyboard.mp4">>

\* durations an audio file can have, in seconds
AudioDurations == {2, 4}

VARIABLES
  files,          \* the global StoryboardFiles object
  results,        \* generate_storyboard's result record
  story_data,     \* generate_storyboard's local: the compiled document
  i,              \* loop index of the image loop and of the audio loop
  video_path,     \* generate_storyboard's local: what the assembler returned
  all_clips,      \* make_video_simple's clip list
  scene_num,      \* make_video_simple's loop variable
  pc,             \* where generate_storyboard stands
  run,            \* number of calls of generate_storyboard so far
  call,           \* the last call of a synthesizer or of the assembler, and its return
  image_calls,    \* scene numbers generate_image was called for in this run
  audio_calls,    \* scene numbers generate_audio was called for in this run
  audio_visits,   \* scene numbers the audio loop has handled in this run
  assemble_calls, \* calls of make_video_simple in this run
  img_written,    \* image keys written by add_image in this run
  aud_written,    \* audio keys written by add_audio in this run
  skipped,        \* scene numbers the assembler skipped (line 406)
  erased,         \* number of image entries the last reset erased
  unloaded,       \* scene numbers whose image clip could not be created (line 447)
  final,          \* make_video_simple's concatenated clip: "none", "open", "closed"
  prompts,        \* the texts enhance_visual_prompts works on
  loop,           \* the event loop of the last generate_audio call: "none", "open", "closed"
  exports,        \* calls of concatenate_videoclips and of write_videofile in this run
  seeds           \* the image requests of two runs, as far as prompts and seeds go

vars == <<files, results, story_data, i, video_path, all_clips, scene_num, pc, run,
          call, image_calls, audio_calls, audio_visits, assemble_calls,
          img_written, aud_written, skipped, erased, unloaded, final, prompts, loop,
          exports, seeds>>

\* ---- StoryboardFiles ------------------------------------------------
\* reset that forgets the audio mapping
reset_images_only(self) ==
  [self EXCEPT !.images = <<>>, !.title_card = None, !.end_card = None]

\* reset that clears the cards and keeps both mappings
reset_keeps_entries(self) ==
  [self EXCEPT !.title_card = None, !.end_card = None]

reset(self) ==
  [self EXCEPT !.images = <<>>, !.audio = <<>>, !.title_card = None, !.end_card = None]

add_image(self, scene_number, path) ==
  [self EXCEPT !.images = (scene_number :> path) @@ self.images]

add_audio(self, scene_number, path) ==
  [self EXCEPT !.audio = (scene_number :> path) @@ self.audio]

get_image(self, scene_number) ==
  IF scene_number \in DOMAIN self.images THEN self.images[scene_number] ELSE None

get_audio(self, scene_number) ==
  IF scene_number \in DOMAIN self.audio THEN self.audio[scene_number] ELSE None

\* StoryboardFiles(): __init__ calls reset
NewStoryboardFiles ==
  reset([images |-> <<>>, audio |-> <<>>, title_card |-> None, end_card |-> None])

\* ---- the story compiler ---------------------------------------------
\* The keys of the document the code reads, and one key it does not.
DocKeys == {"title", "visual_bible", "scenes", "other"}
RequiredDocKeys == {"title", "visual_bible", "scenes"}
RequiredSceneKeys == {"visual_prompt", "narration"}

\* A scene of the response, before its number: the keys it has and its narration text.
SceneShapes ==
  { [keys |-> {"visual_prompt", "narration"}, narration |-> "text"],
    [keys |-> {"visual_prompt", "narration"}, narration |-> ""],
    [keys |-> {"visual_prompt"}, narration |-> ""],
    [keys |-> {"narration"}, narration |-> "text"] }

\* The scene_number values the text service may write into a list of k scenes:
\* 1..k, 2..k+1 (a gap at 1) and 1,1,.. (duplicates).  Nothing in the code
\* writes or checks them.
Numberings(k) ==
  { [j \in 1..k |-> j], [j \in 1..k |-> j + 1], [j \in 1..k |-> 1] }

\* the scenes of a response: shapes with their scene_number
numbered(shapes, numbers) ==
  [k \in DOMAIN shapes |->
     [keys |-> shapes[k].keys \cup {"scene_number"}, narration |-> shapes[k].narration,
      scene_number |-> numbers[k]]]

\* The lists of shapes in which only the last scene may lack a key, numbered
\* 1..k; the numbering with the gap on the lists whose scenes all have every
\* key and a narration, the one with the duplicates on the lists whose scenes
\* all have every key and an empty narration.
SceneLists ==
  UNION { { numbered(p[1], p[2]) :
              p \in { q \in [1..k -> SceneShapes] \X Numberings(k) :
                        /\ \A j \in 1..(k - 1) : q[1][j].keys = RequiredSceneKeys
                        /\ \/ q[2] = [j \in 1..k |-> j]
                           \/ /\ q[2] = [j \in 1..k |-> j + 1]
                              /\ \A j \in 1..k :
                                   q[1][j] = [keys |-> {"visual_prompt", "narration"},
                                              narration |-> "text"]
                           \/ /\ q[2] = [j \in 1..k |-> 1]
                              /\ \A j \in 1..k :
                                   q[1][j] = [keys |-> {"visual_prompt", "narration"},
                                              narration |-> ""] } } :
          k \in 0..MaxScenes }

\* What the text service gives back: an API error, text that is not JSON,
\* JSON that is not an object, or an object with some of the keys.  The
\* objects that lack a key of the document come with scenes that have every
\* key and no narration, the smallest runs that show what becomes of them.
FailedResponses ==
  { [kind |-> k, keys |-> {}, title |-> "str", visual_bible |-> "dict",
     scenes_kind |-> "list", scenes |-> <<>>] :
    k \in {"api_error", "malformed_json", "not_object"} }

ObjectResponses ==
  { r \in [kind : {"object"}, keys : SUBSET DocKeys, title : {"str", "nonstr"},
           visual_bible : {"dict", "nondict"}, scenes_kind : {"list", "bad"},
           scenes : SceneLists] :
      /\ ("other" \in r.keys => r.keys = {"other"})
      /\ ("title" \notin r.keys => r.title = "str")
      /\ ("visual_bible" \notin r.keys => r.visual_bible = "dict")
      /\ ("scenes" \notin r.keys => r.scenes_kind = "list")
      /\ (("scenes" \notin r.keys \/ r.scenes_kind = "bad") => r.scenes = <<>>)
      /\ (~(RequiredDocKeys \subseteq r.keys) =>
            \A k \in DOMAIN r.scenes :
              /\ RequiredSceneKeys \subseteq r.scenes[k].keys
              /\ r.scenes[k].narration = "") }

Responses == FailedResponses \cup ObjectResponses

\* the number of required keys a response lacks, in the object and in its scenes
missing_keys(r) ==
  Cardinality(RequiredDocKeys \ r.keys)
  + Cardinality({k \in DOMAIN r.scenes : ~(RequiredSceneKeys \subseteq r.scenes[k].keys)})

\* a document the caller goes on with, as opposed to None and to the empty object
Document == <<"document">>

\* Python's None, for a document
NoneStory == [type |-> "None", keys |-> {}, title |-> "str", scenes |-> <<>>]

\* enhance_visual_prompts raises on a value without .get, on a visual_bible
\* without .get and on scenes that are not a list of dicts
enhance_raises(r) ==
  \/ r.kind = "not_object"
  \/ ("visual_bible" \in r.keys /\ r.visual_bible = "nondict")
  \/ ("scenes" \in r.keys /\ r.scenes_kind = "bad")

\* every scene gets a visual_prompt and a style_reference; nothing is validated
enhance_visual_prompts(r) ==
  [type |-> "dict", keys |-> r.keys, title |-> r.title,
   scenes |-> [k \in DOMAIN r.scenes |->
                 [r.scenes[k] EXCEPT !.keys = @ \cup {"visual_prompt", "style_reference"}]]]

generate_consistent_story(r) ==
  IF r.kind \in {"api_error", "malformed_json"} \/ enhance_raises(r)
  THEN NoneStory
  ELSE enhance_visual_prompts(r)

\* `not story_data`: None and the empty dict are falsy
Falsy(story) == story.type = "None" \/ story.keys = {}

\* story_data.get("scenes", [])
actual_scenes(story) == story.scenes

\* scene.get("narration", "")
narration_of(scene) == IF "narration" \in scene.keys THEN scene.narration ELSE ""

\* a test that lets every narration through, the empty one too
has_narration_always(narration) == TRUE

\* line 616: `if narration:`
has_narration(narration) == narration # ""

\* arg: an argument of the call that the claims read (the requested number of
\* scenes, for the compiler)
NoCall == [fn |-> "", n |-> 0, outcome |-> "", ret |-> None, arg |-> 0]

\* ---- enhance_visual_prompts, on the texts --------------------------
\* A string is a sequence of tokens: a letter of Chars, or a fixed phrase of
\* the source taken whole.
Chars == {"a", "A", "b"}

\* the strings of at most n letters
Strings(n) == UNION {[1..m -> Chars] : m \in 0..n}

\* the ", " that the f-strings of lines 171, 177 and 181 put between the parts
Sep == << ", " >>
DefaultArtStyle == << "digital art, cinematic" >>
DefaultColorPalette == << "vibrant colors" >>
Suffix == << "consistent character design" >>

\* str.lower
lower_char(c) == IF c = "A" THEN "a" ELSE c
lower(s) == [n \in DOMAIN s |-> lower_char(s[n])]

\* `sub in s` for strings; the empty string is in every string
contains(s, sub) ==
  \E n \in 0..(Len(s) - Len(sub)) : SubSeq(s, n + 1, n + Len(sub)) = sub

\* the visual bibles: each key present or not, a missing key leaving no value
BibleKeys == {"art_style", "color_palette", "main_character"}
visual_bible_of(keys, main_character) ==
  [keys |-> keys,
   art_style |-> IF "art_style" \in keys THEN << "a" >> ELSE << >>,
   color_palette |-> IF "color_palette" \in keys THEN << "b" >> ELSE << >>,
   main_character |-> IF "main_character" \in keys THEN main_character ELSE << >>]
VisualBibles ==
  {visual_bible_of(keys, main_character) :
     keys \in SUBSET BibleKeys, main_character \in Strings(MaxLen)}

\* lines 165-167: visual_bible.get with its defaults
art_style_of(visual_bible) ==
  IF "art_style" \in visual_bible.keys THEN visual_bible.art_style ELSE DefaultArtStyle
color_palette_of(visual_bible) ==
  IF "color_palette" \in visual_bible.keys
  THEN visual_bible.color_palette ELSE DefaultColorPalette
main_character_of(visual_bible) ==
  IF "main_character" \in visual_bible.keys THEN visual_bible.main_character ELSE << >>

\* line 171
consistency_prefix(art_style, color_palette) == art_style \o Sep \o color_palette

\* the test of line 176 without the two calls of lower
needs_character_case_sensitive(main_character, original_prompt) ==
  main_character # << >> /\ ~contains(original_prompt, main_character)

\* line 176
needs_character(main_character, original_prompt) ==
  main_character # << >> /\ ~contains(lower(original_prompt), lower(main_character))

\* lines 176-179
enhanced_prompt(main_character, original_prompt) ==
  IF needs_character(main_character, original_prompt)
  THEN main_character \o Sep \o original_prompt
  ELSE original_prompt

\* lines 174-182: the scene after its turn of the loop
enhance_scene(visual_bible, scene) ==
  LET prefix == consistency_prefix(art_style_of(visual_bible), color_palette_of(visual_bible))
      original_prompt == scene.visual_prompt
  IN [scene EXCEPT
        !.visual_prompt = enhanced_prompt(main_character_of(visual_bible), original_prompt)
                            \o Sep \o prefix \o Sep \o Suffix,
        !.style_reference = prefix]

\* a scene as the text service gave it; original_prompt keeps what
\* visual_prompt was then
text_scene(visual_prompt) ==
  [original_prompt |-> visual_prompt, visual_prompt |-> visual_prompt,
   style_reference |-> << >>]

\* the documents handed to enhance_visual_prompts: one scene or two
TextSceneLists ==
  {<< text_scene(p) >> : p \in Strings(MaxLen)}
    \cup {<< text_scene(p), text_scene(q) >> : p, q \in Strings(MaxLen)}

\* neither concatenate_videoclips nor write_videofile was called
NoExports == [concatenate |-> 0, write |-> 0]

\* ---- the seeds of the image requests --------------------------------
\* An argument that may be None: << >> for None, << n >> for the integer n.
\* values of hash(story_idea): negative, zero, and two that differ by the modulus
Hashes == {-1, 0, 1, HashModulus + 1}

\* line 586
base_seed_of(hash) == hash % HashModulus

\* every scene of a run asking with the base seed itself
seed_without_offset(base_seed, index) == << base_seed >>

\* line 598, index being i, the 0-based position of the scene
seed_of(base_seed, index) == << base_seed + index >>

\* line 198: `if seed:`, false for None and for 0
seed_truthy(seed) == seed # None /\ seed[1] # 0

\* lines 194-201: the prompt and the seed parameter of the request address
image_url(prompt, seed) ==
  [prompt |-> << prompt, "consistency_keywords" >>,
   seed |-> IF seed_truthy(seed) THEN seed ELSE None]

\* a call of generate_image, as far as the request goes: its arguments and
\* the address it asks
image_request(prompt, seed) == [prompt |-> prompt, seed |-> seed, url |-> image_url(prompt, seed)]

\* the visual prompts of the scenes of a run
SeedPrompts == UNION {[1..k -> {"p", "q"}] : k \in 0..MaxScenes}

\* no image request followed
NoSeeds == [hash |-> << >>, prompts |-> << >>, sent |-> << >>, direct |-> << >>]

\* no texts: the pipeline is followed at the level of keys
NoPrompts == [visual_bible |-> visual_bible_of({}, << >>), scenes |-> << >>, k |-> 0]

Init ==
  /\ files = NewStoryboardFiles
  /\ results = [status |-> "", story |-> NoneStory, images |-> <<>>, audio |-> <<>>,
                video |-> None, error |-> ""]
  /\ story_data = NoneStory
  /\ i = 0
  /\ video_path = None
  /\ all_clips = <<>>
  /\ scene_num = 0
  /\ pc = "idle"
  /\ run = 0
  /\ call = NoCall
  /\ image_calls = {}
  /\ audio_calls = {}
  /\ audio_visits = {}
  /\ assemble_calls = 0
  /\ img_written = {}
  /\ aud_written = {}
  /\ skipped = {}
  /\ erased = 0
  /\ unloaded = {}
  /\ final = "none"
  /\ loop = "none"
  /\ exports = NoExports
  /\ seeds = NoSeeds
  /\ prompts = NoPrompts

\* generate_storyboard, lines 552-561: reset the registry, create the result
StartRun ==
  /\ pc \in {"idle", "returned", "raised"}
  /\ run < MaxRuns
  /\ run' = run + 1
  /\ erased' = Cardinality(DOMAIN files.images)
  /\ files' = reset(files)
  /\ results' = [status |-> "processing", story |-> NoneStory, images |-> <<>>,
                 audio |-> <<>>, video |-> None, error |-> ""]
  /\ story_data' = NoneStory
  /\ i' = 0
  /\ video_path' = None
  /\ all_clips' = <<>>
  /\ scene_num' = 0
  /\ call' = NoCall
  /\ image_calls' = {}
  /\ audio_calls' = {}
  /\ audio_visits' = {}
  /\ assemble_calls' = 0
  /\ img_written' = {}
  /\ aud_written' = {}
  /\ skipped' = {}
  /\ unloaded' = {}
  /\ final' = "none"
  /\ exports' = NoExports
  /\ pc' = "story"
  /\ UNCHANGED <<prompts, loop, seeds>>

\* the num_scenes argument of generate_storyboard, used at line 570 only
RequestedScenes == 1..MaxScenes

\* ---- generate_storyboard, lines 570-581 ---------------------------
GenerateStory ==
  /\ pc = "story"
  /\ \E r \in Responses, num_scenes \in RequestedScenes :
       LET sd == generate_consistent_story(r) IN
       /\ story_data' = sd
       /\ call' = [fn |-> "generate_consistent_story", n |-> missing_keys(r),
                   outcome |-> r.kind,
                   ret |-> IF Falsy(sd) THEN None ELSE Document,
                   arg |-> num_scenes]
       /\ IF Falsy(sd)
          THEN /\ results' = [results EXCEPT !.status = "error",
                                             !.error = "Failed to generate story"]
               /\ pc' = "returned"
          ELSE /\ results' = [results EXCEPT !.story = sd]
               /\ pc' = IF Len(actual_scenes(sd)) = 0 THEN "title_card" ELSE "images"
  /\ UNCHANGED <<loop, exports, seeds, unloaded, final, prompts, files, i, video_path, all_clips, scene_num, run, image_calls,
                 audio_calls, audio_visits, assemble_calls, img_written, aud_written,
                 skipped, erased>>

\* ---- the image synthesizer ------------------------------------------
\* what the normal path of generate_image meets
ImageResponses == {"ok", "non_200", "decode_error", "save_unverified", "exception"}
\* what img.save and the drawing calls of create_placeholder do
Renderings == {"ok", "raises"}

\* a placeholder that gives up quietly: no file, no registration, no exception
create_placeholder_gives_none(self, scene_number, rendering) ==
  IF rendering = "raises"
  THEN [files |-> self, ret |-> None]
  ELSE [files |-> add_image(self, scene_number, ScenePath(scene_number)),
        ret |-> ScenePath(scene_number)]

\* create_placeholder: nothing guards img.save; the result is the registry
\* and the returned value
create_placeholder(self, scene_number, rendering) ==
  IF rendering = "raises"
  THEN [files |-> self, ret |-> Raised]
  ELSE [files |-> add_image(self, scene_number, ScenePath(scene_number)),
        ret |-> ScenePath(scene_number)]

generate_image(self, scene_number, response, rendering) ==
  IF response = "ok"
  THEN [files |-> add_image(self, scene_number, ScenePath(scene_number)),
        ret |-> ScenePath(scene_number)]
  ELSE create_placeholder(self, scene_number, rendering)

\* generate_storyboard, lines 595-603: one turn of the image loop
GenerateImage ==
  /\ pc = "images"
  /\ i < Len(actual_scenes(story_data))
  /\ \E response \in ImageResponses, rendering \in Renderings :
       LET scene_number == i + 1
           out == generate_image(files, scene_number, response, rendering)
       IN
       /\ files' = out.files
       /\ call' = [fn |-> "generate_image", n |-> scene_number,
                   outcome |-> response, ret |-> out.ret, arg |-> 0]
       /\ image_calls' = image_calls \cup {scene_number}
       /\ img_written' = img_written \cup (IF out.ret # Raised THEN {scene_number} ELSE {})
       /\ IF out.ret = Raised
          THEN /\ pc' = "raised"
               /\ UNCHANGED <<results, i>>
          ELSE /\ results' = [results EXCEPT !.images = Append(@, out.ret)]
               /\ IF i + 1 < Len(actual_scenes(story_data))
                  THEN pc' = "images" /\ i' = i + 1
                  ELSE pc' = "audio" /\ i' = 0
  /\ UNCHANGED <<loop, exports, seeds, unloaded, final, prompts, story_data, video_path, all_clips, scene_num, run, audio_calls,
                 audio_visits, assemble_calls, aud_written, skipped, erased>>

\* ---- the audio synthesizer ------------------------------------------
\* what the speech request leaves behind: a file with sound, an empty file,
\* no file, or an exception
TtsOutcomes == {"ok", "empty", "missing", "raises"}

\* os.path.exists(audio_path) after the request returned
audio_file_exists(tts) == tts \in {"ok", "empty"}

\* lines 303-306: the loop the call made, when the call returns; loop.close()
\* follows run_until_complete in the try, and the except does not close
event_loop(tts) == IF tts = "raises" THEN "open" ELSE "closed"

\* a synthesizer that registers the empty file and returns None for it
generate_audio_unreturned(self, scene_number, tts) ==
  IF tts = "raises"
  THEN [files |-> self, ret |-> None, loop |-> event_loop(tts)]
  ELSE IF audio_file_exists(tts)
       THEN [files |-> add_audio(self, scene_number, NarrationPath(scene_number)),
             ret |-> IF tts = "empty" THEN None ELSE NarrationPath(scene_number),
             loop |-> event_loop(tts)]
       ELSE [files |-> self, ret |-> None, loop |-> event_loop(tts)]

generate_audio(self, scene_number, tts) ==
  IF tts = "raises"
  THEN [files |-> self, ret |-> None, loop |-> event_loop(tts)]
  ELSE IF audio_file_exists(tts)
       THEN [files |-> add_audio(self, scene_number, NarrationPath(scene_number)),
             ret |-> NarrationPath(scene_number), loop |-> event_loop(tts)]
       ELSE [files |-> self, ret |-> None, loop |-> event_loop(tts)]

\* generate_storyboard, lines 612-621: one turn of the audio loop
GenerateAudio ==
  /\ pc = "audio"
  /\ i < Len(actual_scenes(story_data))
  /\ LET scene_number == i + 1
         narration == narration_of(actual_scenes(story_data)[i + 1])
     IN
     /\ IF has_narration(narration)
        THEN \E tts \in TtsOutcomes :
               LET out == generate_audio(files, scene_number, tts) IN
               /\ files' = out.files
               /\ loop' = out.loop
               /\ call' = [fn |-> "generate_audio", n |-> scene_number,
                           outcome |-> tts, ret |-> out.ret, arg |-> 0]
               /\ audio_calls' = audio_calls \cup {scene_number}
               /\ aud_written' = aud_written \cup (IF out.ret # None THEN {scene_number} ELSE {})
               /\ results' = [results EXCEPT !.audio = Append(@, out.ret)]
        ELSE /\ results' = [results EXCEPT !.audio = Append(@, None)]
             /\ call' = NoCall
             /\ UNCHANGED <<files, audio_calls, aud_written, loop>>
     /\ audio_visits' = audio_visits \cup {scene_number}
     /\ IF i + 1 < Len(actual_scenes(story_data))
        THEN pc' = "audio" /\ i' = i + 1
        ELSE pc' = "title_card" /\ i' = i + 1
  /\ UNCHANGED <<exports, seeds, unloaded, final, prompts, story_data, video_path, all_clips, scene_num, run, image_calls,
                 assemble_calls, img_written, skipped, erased>>

\* ---- the video assembler ------------------------------------------
\* story_data.get("title", "My Story")
title_of(story) == IF "title" \in story.keys THEN story.title ELSE "str"

\* a list that takes each new clip at its front
prepend_clips(clips, new) == new \o clips

\* lines 385, 445 and 465: all_clips.append
append_clips(clips, new) == clips \o new

\* lines 384-385 and 464-465: a card clip, when ImageClip loads the card
card_clips(kind, loads) ==
  IF loads
  THEN << [kind |-> kind, scene |-> 0, duration |-> CardDuration, audio |-> None,
           closed |-> FALSE] >>
  ELSE << >>

\* a test that looks at the registry only, not at the file
image_skipped_registry_only(self, scene_number, image_exists) ==
  get_image(self, scene_number) = None

\* line 406: the scene has no registered image, or its file is gone
image_skipped(self, scene_number, image_exists) ==
  get_image(self, scene_number) = None \/ ~image_exists

\* line 419 and lines 420-428: the audio is registered, on disk and loads
audio_loaded(self, scene_number, audio_exists, audio_loads) ==
  get_audio(self, scene_number) # None /\ audio_exists /\ audio_loads

\* lines 416-428
clip_duration(has_audio, audio_duration) ==
  IF has_audio THEN audio_duration + AudioPadding ELSE DefaultDuration

\* lines 399-450: the clips scene scene_number adds to the list, none or one
scene_clips(self, scene_number, image_exists, image_loads, audio_exists, audio_loads, audio_duration, attaches) ==
  IF image_skipped(self, scene_number, image_exists) \/ ~image_loads
  THEN << >>
  ELSE LET has_audio == audio_loaded(self, scene_number, audio_exists, audio_loads) IN
       << [kind |-> "scene", scene |-> scene_number,
           duration |-> clip_duration(has_audio, audio_duration),
           audio |-> IF has_audio /\ attaches
                     THEN get_audio(self, scene_number) ELSE None,
           closed |-> FALSE] >>

\* what concatenation and export do
ExportOutcomes == {"ok", "empty_file", "no_file", "concat_raises", "write_raises"}

\* os.path.exists(output_path) after write_videofile returned
output_exists(export) == export \in {"ok", "empty_file"}

\* a test that stops the empty list only
not_enough_clips_empty_only(clips) == Len(clips) = 0

\* line 475
not_enough_clips(clips) == Len(clips) < MinClips

\* lines 475-505: the calls of concatenate_videoclips (line 490) and of
\* write_videofile (line 496) that one call of make_video_simple adds
count_exports(counts, clips, export) ==
  IF not_enough_clips(clips)
  THEN counts
  ELSE IF export = "concat_raises"
       THEN [counts EXCEPT !.concatenate = @ + 1]
       ELSE [counts EXCEPT !.concatenate = @ + 1, !.write = @ + 1]

\* lines 473-535: what make_video_simple returns
combine_and_export(clips, export) ==
  IF not_enough_clips(clips)
  THEN None
  ELSE IF export \in {"concat_raises", "write_raises"}
       THEN None
       ELSE IF output_exists(export) THEN OutputPath ELSE None

\* lines 479-505 ran to their end, so that the cleanup of lines 507-517 runs
cleanup_reached(clips, export) ==
  ~not_enough_clips(clips) /\ export \notin {"concat_raises", "write_raises"}

\* lines 509-513: clip.close() for each clip of the list
close_clips(clips) == [k \in DOMAIN clips |-> [clips[k] EXCEPT !.closed = TRUE]]

\* lines 490 and 514-517: the concatenated clip, once make_video_simple is over
final_clip(clips, export) ==
  IF not_enough_clips(clips) \/ export = "concat_raises"
  THEN "none"
  ELSE IF cleanup_reached(clips, export) THEN "closed" ELSE "open"

\* the status taken from the call having been made, not from its result
final_status_always_completed(path) == "completed"

\* lines 638-641
final_status(path) == IF path # None THEN "completed" ELSE "partial"

\* make_video_simple, lines 369-388, called at line 635
TitleCard ==
  /\ pc = "title_card"
  /\ assemble_calls' = assemble_calls + 1
  /\ \E rendering \in Renderings, loads \in BOOLEAN :
       IF title_of(story_data) = "nonstr" \/ rendering = "raises"
       THEN /\ pc' = "raised"
            /\ call' = [fn |-> "make_video_simple", n |-> Len(actual_scenes(story_data)),
                        outcome |-> IF title_of(story_data) = "nonstr"
                                    THEN "title_not_a_string" ELSE "card_rendering",
                        ret |-> Raised, arg |-> 0]
            /\ UNCHANGED <<all_clips, scene_num>>
       ELSE /\ all_clips' = append_clips(all_clips, card_clips("title", loads))
            /\ scene_num' = 1
            /\ pc' = IF Len(actual_scenes(story_data)) = 0 THEN "end_card" ELSE "scenes"
            /\ call' = [fn |-> "make_video_simple", n |-> Len(actual_scenes(story_data)),
                        outcome |-> "running", ret |-> None, arg |-> 0]
  /\ UNCHANGED <<loop, exports, seeds, unloaded, final, prompts, files, results, story_data, i, video_path, run, image_calls,
                 audio_calls, audio_visits, img_written, aud_written, skipped, erased>>

\* make_video_simple, lines 395-450: one turn of the scene loop
\* skipped: the scenes met without a registered image or without its file
SceneClip ==
  /\ pc = "scenes"
  /\ scene_num <= call.n
  /\ \E image_exists \in BOOLEAN, image_loads \in BOOLEAN, audio_exists \in BOOLEAN,
        audio_loads \in BOOLEAN, audio_duration \in AudioDurations, attaches \in BOOLEAN :
       /\ all_clips' = append_clips(all_clips,
                                    scene_clips(files, scene_num, image_exists, image_loads,
                                                audio_exists, audio_loads, audio_duration,
                                                attaches))
       /\ unloaded' = IF ~(get_image(files, scene_num) = None \/ ~image_exists) /\ ~image_loads
                      THEN unloaded \cup {scene_num} ELSE unloaded
       /\ skipped' = IF get_image(files, scene_num) = None \/ ~image_exists
                     THEN skipped \cup {scene_num} ELSE skipped
  /\ scene_num' = scene_num + 1
  /\ pc' = IF scene_num + 1 <= call.n THEN "scenes" ELSE "end_card"
  /\ UNCHANGED <<loop, exports, seeds, final, prompts, files, results, story_data, i, video_path, run, call,
                 image_calls, audio_calls, audio_visits, assemble_calls, img_written,
                 aud_written, erased>>

\* make_video_simple, lines 455-468
EndCard ==
  /\ pc = "end_card"
  /\ \E rendering \in Renderings, loads \in BOOLEAN :
       IF rendering = "raises"
       THEN /\ pc' = "raised"
            /\ call' = [call EXCEPT !.outcome = "card_rendering", !.ret = Raised]
            /\ UNCHANGED all_clips
       ELSE /\ all_clips' = append_clips(all_clips, card_clips("end", loads))
            /\ pc' = "export"
            /\ UNCHANGED call
  /\ UNCHANGED <<loop, exports, seeds, unloaded, final, prompts, files, results, story_data, i, video_path, scene_num, run, image_calls,
                 audio_calls, audio_visits, assemble_calls, img_written, aud_written,
                 skipped, erased>>

\* make_video_simple, lines 473-535, and generate_storyboard, lines 636-655
Export ==
  /\ pc = "export"
  /\ \E export \in ExportOutcomes :
       LET path == combine_and_export(all_clips, export) IN
       /\ video_path' = path
       /\ all_clips' = IF cleanup_reached(all_clips, export)
                       THEN close_clips(all_clips) ELSE all_clips
       /\ final' = final_clip(all_clips, export)
       /\ exports' = count_exports(exports, all_clips, export)
       /\ call' = [call EXCEPT !.outcome = IF not_enough_clips(all_clips)
                                           THEN "not_enough_clips" ELSE export,
                               !.ret = path]
       /\ results' = [results EXCEPT
                        !.video = path,
                        !.status = final_status(path),
                        !.error = IF path # None THEN @
                                  ELSE "Images generated but video creation failed"]
  /\ pc' = "returned"
  /\ UNCHANGED <<loop, seeds, unloaded, prompts, files, story_data, i, scene_num, run, image_calls,
                 audio_calls, audio_visits, assemble_calls, img_written, aud_written,
                 skipped, erased>>

Next ==
  \/ StartRun
  \/ GenerateStory
  \/ GenerateImage
  \/ GenerateAudio
  \/ TitleCard
  \/ SceneClip
  \/ EndCard
  \/ Export

Spec == Init /\ [][Next]_vars

\* ---- the registry on its own: any sequence of calls of its methods ---
RegistryPaths == {ScenePath(1), NarrationPath(2)}

RegistryAddImage ==
  /\ \E scene_number \in 1..MaxKey, path \in RegistryPaths :
       /\ files' = add_image(files, scene_number, path)
       /\ call' = [fn |-> "add_image", n |-> scene_number, outcome |-> "", ret |-> path, arg |-> 0]
  /\ UNCHANGED <<loop, exports, seeds, unloaded, final, prompts, results, story_data, i, video_path, all_clips, scene_num, pc, run,
                 image_calls, audio_calls, audio_visits, assemble_calls, img_written,
                 aud_written, skipped, erased>>

RegistryAddAudio ==
  /\ \E scene_number \in 1..MaxKey, path \in RegistryPaths :
       /\ files' = add_audio(files, scene_number, path)
       /\ call' = [fn |-> "add_audio", n |-> scene_number, outcome |-> "", ret |-> path, arg |-> 0]
  /\ UNCHANGED <<loop, exports, seeds, unloaded, final, prompts, results, story_data, i, video_path, all_clips, scene_num, pc, run,
                 image_calls, audio_calls, audio_visits, assemble_calls, img_written,
                 aud_written, skipped, erased>>

\* call.n and erased: how many audio and image entries the reset met;
\* call.outcome: whether the call before it was a reset too
RegistryReset ==
  /\ files' = reset(files)
  /\ call' = [fn |-> "reset", n |-> Cardinality(DOMAIN files.audio),
              outcome |-> IF call.fn = "reset" THEN "again" ELSE "first", ret |-> None,
              arg |-> 0]
  /\ erased' = Cardinality(DOMAIN files.images)
  /\ UNCHANGED <<loop, exports, seeds, unloaded, final, prompts, results, story_data, i, video_path, all_clips, scene_num, pc, run,
                 image_calls, audio_calls, audio_visits, assemble_calls, img_written,
                 aud_written, skipped>>

NextRegistry ==
  \/ RegistryAddImage
  \/ RegistryAddAudio
  \/ RegistryReset

SpecRegistry == Init /\ [][NextRegistry]_vars

\* ---- enhance_visual_prompts on its own: any bible, any prompts --------
InitEnhance ==
  /\ files = NewStoryboardFiles
  /\ results = [status |-> "processing", story |-> NoneStory, images |-> <<>>,
                audio |-> <<>>, video |-> None, error |-> ""]
  /\ story_data = NoneStory
  /\ i = 0
  /\ video_path = None
  /\ all_clips = <<>>
  /\ scene_num = 0
  /\ pc = "idle"
  /\ run = 0
  /\ call = NoCall
  /\ image_calls = {}
  /\ audio_calls = {}
  /\ audio_visits = {}
  /\ assemble_calls = 0
  /\ img_written = {}
  /\ aud_written = {}
  /\ skipped = {}
  /\ erased = 0
  /\ unloaded = {}
  /\ final = "none"
  /\ loop = "none"
  /\ exports = NoExports
  /\ seeds = NoSeeds
  /\ \E visual_bible \in VisualBibles, scenes \in TextSceneLists :
       prompts = [visual_bible |-> visual_bible, scenes |-> scenes, k |-> 0]

\* lines 173-182: one turn of the loop over the scenes
EnhanceScene ==
  /\ prompts.k < Len(prompts.scenes)
  /\ prompts' = [prompts EXCEPT
                   !.scenes[prompts.k + 1] = enhance_scene(prompts.visual_bible, @),
                   !.k = @ + 1]
  /\ UNCHANGED <<loop, exports, seeds, files, results, story_data, i, video_path, all_clips, scene_num, pc, run,
                 call, image_calls, audio_calls, audio_visits, assemble_calls,
                 img_written, aud_written, skipped, erased, unloaded, final>>

NextEnhance == EnhanceScene

SpecEnhance == InitEnhance /\ [][NextEnhance]_vars

\* ---- the image requests of two runs, and a call without a seed ---------
InitSeeds ==
  /\ files = NewStoryboardFiles
  /\ results = [status |-> "processing", story |-> NoneStory, images |-> <<>>,
                audio |-> <<>>, video |-> None, error |-> ""]
  /\ story_data = NoneStory
  /\ i = 0
  /\ video_path = None
  /\ all_clips = <<>>
  /\ scene_num = 0
  /\ pc = "idle"
  /\ run = 0
  /\ call = NoCall
  /\ image_calls = {}
  /\ audio_calls = {}
  /\ audio_visits = {}
  /\ assemble_calls = 0
  /\ img_written = {}
  /\ aud_written = {}
  /\ skipped = {}
  /\ erased = 0
  /\ unloaded = {}
  /\ final = "none"
  /\ loop = "none"
  /\ exports = NoExports
  /\ prompts = NoPrompts
  /\ \E h1 \in Hashes, h2 \in Hashes, p1 \in SeedPrompts, p2 \in SeedPrompts :
       seeds = [hash |-> << h1, h2 >>, prompts |-> << p1, p2 >>,
                sent |-> << << >>, << >> >>, direct |-> << >>]

\* generate_storyboard, lines 586 and 595-600: one turn of the image loop of
\* run r, the second run starting when the first is through
SeedImage ==
  /\ \E r \in 1..2 :
       LET position == Len(seeds.sent[r])
           base_seed == base_seed_of(seeds.hash[r])
       IN
       /\ position < Len(seeds.prompts[r])
       /\ r = 2 => Len(seeds.sent[1]) = Len(seeds.prompts[1])
       /\ seeds' = [seeds EXCEPT
                      !.sent[r] = Append(@, image_request(seeds.prompts[r][position + 1],
                                                          seed_of(base_seed, position)))]
  /\ UNCHANGED <<files, results, story_data, i, video_path, all_clips, scene_num, pc, run,
                 call, image_calls, audio_calls, audio_visits, assemble_calls,
                 img_written, aud_written, skipped, erased, unloaded, final, prompts,
                 loop, exports>>

\* generate_image called with the default of its seed parameter, line 191
UnseededImage ==
  /\ seeds.direct = << >>
  /\ \E prompt \in {"p", "q"} :
       seeds' = [seeds EXCEPT !.direct = << image_request(prompt, None) >>]
  /\ UNCHANGED <<files, results, story_data, i, video_path, all_clips, scene_num, pc, run,
                 call, image_calls, audio_calls, audio_visits, assemble_calls,
                 img_written, aud_written, skipped, erased, unloaded, final, prompts,
                 loop, exports>>

NextSeeds ==
  \/ SeedImage
  \/ UnseededImage

SpecSeeds == InitSeeds /\ [][NextSeeds]_vars

\* ======================================================================
\* The claims
\* ======================================================================

\* the run obtained a document: story_data passed the test of line 572
DocumentObtained == ~Falsy(story_data)

\* the document of the run has every required key, in the object and in each scene
CompleteDocument ==
  /\ DocumentObtained
  /\ RequiredDocKeys \subseteq story_data.keys
  /\ \A k \in DOMAIN story_data.scenes : RequiredSceneKeys \subseteq story_data.scenes[k].keys

\* the assembler was called and has returned (or raised)
AssemblerReturned == call.fn = "make_video_simple" /\ call.outcome # "running"

\* C1: a call of generate_storyboard that returns has status error, partial
\* or completed, never processing: error exactly when the compiler gave no
\* document (None, or the empty object that line 572 treats alike), completed
\* exactly when a document was obtained and the assembler returned a path,
\* partial exactly when a document was obtained and the assembler returned none.
C1_FinalStatus ==
  pc = "returned" =>
    /\ results.status \in {"completed", "partial", "error"}
    /\ (results.status = "error" <=> ~DocumentObtained)
    /\ (results.status = "completed" <=>
          DocumentObtained /\ AssemblerReturned /\ call.ret = OutputPath)
    /\ (results.status = "partial" <=>
          DocumentObtained /\ AssemblerReturned /\ call.ret = None)

C1_Witness ==
  /\ pc = "returned"
  /\ results.status = "partial"
  /\ Len(results.images) = MaxScenes
  /\ call.outcome = "no_file"

\* C2: when every scene 1..scene_count was skipped the assembler returns no
\* path and does not reach concatenation, so no video of cards alone is made;
\* with title card, one scene clip and end card it goes on to export.
\* (Stated for runs on a complete document.)
C2_CardsOnlyFails ==
  (CompleteDocument /\ AssemblerReturned /\ call.ret # Raised) =>
    /\ (skipped = 1..call.n =>
          call.outcome = "not_enough_clips" /\ call.ret = None)
    /\ ((Len(all_clips) = 3 /\ all_clips[1].kind = "title"
         /\ all_clips[2].kind = "scene" /\ all_clips[3].kind = "end")
        => call.outcome # "not_enough_clips")

\* C3: whenever the normal path of generate_image fails, the call returns a
\* path, raises nothing, and the registry holds that path under the scene number.
\* (Stated for runs on a complete document.)
C3_ImageAlwaysReturned ==
  (CompleteDocument /\ call.fn = "generate_image" /\ call.outcome # "ok") =>
    /\ call.ret # Raised
    /\ call.ret # None
    /\ get_image(files, call.n) = call.ret

\* C4: when the speech request raises, or leaves no file or an empty file,
\* generate_audio returns None and registers nothing; it registers and returns
\* a path only for a file that exists and is not empty.
\* (Stated for runs on a complete document.)
C4_AudioOnlyNonEmpty ==
  (CompleteDocument /\ call.fn = "generate_audio") =>
    /\ (call.outcome \in {"raises", "missing", "empty"} =>
          call.ret = None /\ call.n \notin DOMAIN files.audio)
    /\ (call.ret # None => call.outcome = "ok")

\* C5: no run of generate_storyboard ends by raising an exception to its caller.
C5_NoException == pc # "raised"

\* C6: after reset, get_image(n) and get_audio(n) are None for every n, whatever
\* calls of add_image and add_audio came before, also when the call before it
\* was a reset.
C6_ResetEmpties ==
  call.fn = "reset" =>
    \A n \in 0..(MaxKey + 1) :
      get_image(files, n) = None /\ get_audio(files, n) = None

C6_Witness ==
  /\ call.fn = "reset"
  /\ call.outcome = "first"
  /\ erased = MaxKey
  /\ call.n > 0

\* C7: the registry is reset before any other step of a run, and at every
\* point of a run each image and audio entry of the registry was written by a
\* synthesizer call of that same run.
C7_NoStaleEntries ==
  /\ (pc = "story" => DOMAIN files.images = {} /\ DOMAIN files.audio = {})
  /\ DOMAIN files.images \subseteq img_written
  /\ DOMAIN files.audio \subseteq aud_written

\* the second run, with fewer scenes than the first one registered, at the
\* moment the assembler has read the registry
C7_Witness ==
  /\ run = 2
  /\ pc = "export"
  /\ erased > Len(actual_scenes(story_data))
  /\ DOMAIN files.images # {}
  /\ DOMAIN files.audio # {}

\* the speech synthesis of a scene failed: an exception, no file, an empty file
SynthesisFailed(tts) == tts \in {"raises", "missing", "empty"}

\* C8: when a run that obtained a document returns, the images list and the
\* audio list have one element per scene, in scene order; no image is None,
\* and an audio element is None exactly when the scene's narration was empty
\* or its speech synthesis failed.  (Stated for runs on a complete document.)
C8_ResultLists ==
  CompleteDocument =>
  /\ (pc = "returned" /\ DocumentObtained) =>
       /\ Len(results.images) = Len(actual_scenes(story_data))
       /\ Len(results.audio) = Len(actual_scenes(story_data))
       /\ \A k \in 1..Len(results.images) : results.images[k] = ScenePath(k)
  /\ \A k \in 1..Len(results.audio) :
       /\ results.audio[k] \in {None, NarrationPath(k)}
       /\ (narration_of(actual_scenes(story_data)[k]) = "" => results.audio[k] = None)
  /\ (call.fn = "generate_audio" =>
        (results.audio[call.n] = None <=> SynthesisFailed(call.outcome)))

\* C9: a run that obtains a document invokes the assembler exactly once, and
\* only after generate_image was called for every scene and the audio loop
\* handled every scene (calling generate_audio for each with a narration);
\* a failed generation for one scene stops neither the others nor the assembly.
\* (Stated for runs on a complete document.)
C9_AssemblyAfterAllScenes ==
  LET n == Len(actual_scenes(story_data)) IN
  CompleteDocument =>
  /\ assemble_calls <= 1
  /\ (assemble_calls = 1 =>
        /\ image_calls = 1..n
        /\ audio_visits = 1..n
        /\ audio_calls = {k \in 1..n : narration_of(actual_scenes(story_data)[k]) # ""})
  /\ ((pc \in {"returned", "raised"} /\ DocumentObtained) => assemble_calls = 1)

\* C10: a response that is a JSON object lacking a required key is rejected
\* as a whole: the compiler returns None and the run ends with status error,
\* having generated no image, no audio and no video.
C10_MissingKeyRejected ==
  (call.fn = "generate_consistent_story" /\ call.outcome = "object" /\ call.n > 0) =>
    /\ call.ret = None
    /\ pc = "returned"
    /\ results.status = "error"
    /\ image_calls = {} /\ audio_calls = {} /\ assemble_calls = 0

\* C11: the scenes of every document the compiler returns carry the
\* scene_number values 1..N in order, without gap or duplicate, N being the
\* requested number of scenes.  (Stated for complete documents.)
C11_SceneNumbers ==
  (CompleteDocument /\ call.fn = "generate_consistent_story" /\ call.ret = Document) =>
    /\ Len(story_data.scenes) = call.arg
    /\ \A k \in 1..Len(story_data.scenes) : story_data.scenes[k].scene_number = k

\* C16: the image and the audio made for a scene are stored in the registry
\* under the scene's own scene_number.  (Stated for complete documents.)
C16_KeyedBySceneNumber ==
  CompleteDocument =>
    /\ \A k \in 1..Len(results.images) :
         get_image(files, story_data.scenes[k].scene_number) = results.images[k]
    /\ \A k \in 1..Len(results.audio) :
         results.audio[k] # None =>
           get_audio(files, story_data.scenes[k].scene_number) = results.audio[k]

\* C13: make_video_simple returns a path only when the output file exists and
\* is not empty; when the file is missing or empty it returns no path and the
\* run is partial.  (Stated for runs on a complete document.)
C13_PathOnlyNonEmpty ==
  (CompleteDocument /\ AssemblerReturned) =>
    /\ (call.ret = OutputPath => call.outcome = "ok")
    /\ ((call.outcome \in {"empty_file", "no_file"} /\ pc = "returned") =>
          call.ret = None /\ results.status = "partial")

\* C19: a scene clip whose audio is registered, on disk and loads lasts the
\* audio's duration plus one second and carries the audio; any other scene
\* clip lasts exactly five seconds and carries none; no clip has a duration
\* taken from an audio without carrying that audio.
C19_DurationFromAudio ==
  \A k \in 1..Len(all_clips) :
    all_clips[k].kind = "scene" =>
      \/ /\ all_clips[k].audio # None
         /\ all_clips[k].duration \in {d + AudioPadding : d \in AudioDurations}
      \/ /\ all_clips[k].audio = None
         /\ all_clips[k].duration = DefaultDuration

\* C14: a run that returns with status error has a null story, empty images
\* and audio lists, a null video and an empty registry, and called neither a
\* synthesizer nor the assembler; one that returns partial has a story, a
\* null video and an images list holding one path per scene; one that returns
\* completed has a story and a video.
C14_ResultByStatus ==
  pc = "returned" =>
    /\ results.status = "error" =>
         /\ results.story = NoneStory
         /\ results.images = <<>> /\ results.audio = <<>>
         /\ results.video = None
         /\ DOMAIN files.images = {} /\ DOMAIN files.audio = {}
         /\ image_calls = {} /\ audio_calls = {} /\ assemble_calls = 0
    /\ results.status = "partial" =>
         /\ results.story # NoneStory
         /\ results.video = None
         /\ Len(results.images) = Len(actual_scenes(results.story))
         /\ \A k \in 1..Len(results.images) : results.images[k] = ScenePath(k)
    /\ results.status = "completed" =>
         /\ results.story # NoneStory
         /\ results.video = OutputPath

\* a run that ends in error right after a run that filled the registry
C14_Witness ==
  /\ pc = "returned"
  /\ results.status = "error"
  /\ run = 2
  /\ erased = MaxScenes

\* the scene's narration is the empty string, or the scene has none
EmptyNarration(scene) == "narration" \notin scene.keys \/ scene.narration = ""

\* C15: for a scene whose narration is empty, generate_audio is not called,
\* None stands at the scene's position of the audio list, and the registry
\* holds no audio entry for the scene, up to the end of the run.
C15_EmptyNarrationSkipped ==
  \A k \in audio_visits :
    EmptyNarration(story_data.scenes[k]) =>
      /\ k \notin audio_calls
      /\ results.audio[k] = None
      /\ get_audio(files, k) = None

\* a returned run of two scenes: the first with an empty narration, the
\* second with a narration whose audio was registered
C15_Witness ==
  /\ pc = "returned"
  /\ Len(results.audio) = 2
  /\ "narration" \in story_data.scenes[1].keys
  /\ story_data.scenes[1].narration = ""
  /\ results.audio[1] = None
  /\ get_audio(files, 2) = NarrationPath(2)

\* C18: a scene that has no registered image, or whose image file is missing,
\* adds no clip; the loop goes on to every later scene, and the end card is
\* reached only after all scenes were visited.
C18_SkipContinues ==
  /\ \A k \in skipped :
       \A j \in 1..Len(all_clips) :
         ~(all_clips[j].kind = "scene" /\ all_clips[j].scene = k)
  /\ (pc = "scenes" => scene_num <= call.n /\ skipped \subseteq 1..(scene_num - 1))
  /\ (pc \in {"end_card", "export"} => scene_num = call.n + 1)
  /\ ((AssemblerReturned /\ call.outcome # "title_not_a_string"
       /\ ~(call.outcome = "card_rendering" /\ scene_num = 0)) =>
        scene_num = call.n + 1)

\* the first of two scenes was skipped, the second gave its clip, and the end
\* card followed
C18_Witness ==
  /\ pc = "export"
  /\ skipped = {1}
  /\ Len(all_clips) = 3
  /\ all_clips[2].kind = "scene" /\ all_clips[2].scene = 2
  /\ all_clips[3].kind = "end"

\* C20: when make_video_simple is over, by returning a path, by returning
\* none for lack of clips or of an output file, or after an exception in the
\* concatenation or the export, every clip it created and the concatenated
\* clip have been closed.  (Stated for runs on a complete document.)
C20_ClipsClosed ==
  (CompleteDocument /\ AssemblerReturned /\ call.ret # Raised) =>
    /\ \A k \in 1..Len(all_clips) : all_clips[k].closed
    /\ final # "open"

\* the clips of scene n in the list
ClipsOf(clips, n) == {j \in 1..Len(clips) : clips[j].kind = "scene" /\ clips[j].scene = n}

\* the cards of the list last three seconds and carry no audio
CardsPlain(clips) ==
  \A j \in 1..Len(clips) :
    clips[j].kind \in {"title", "end"} =>
      clips[j].duration = CardDuration /\ clips[j].audio = None

\* C17, as the spec states it: at concatenation the list holds the title clip
\* first, the end clip last, and between them the scene clips in strictly
\* increasing scene number, one for each scene that was not skipped; the
\* cards last three seconds without audio.
\* (Stated for runs on a complete document.)
C17_ClipOrder ==
  (CompleteDocument /\ pc = "export" /\ ~not_enough_clips(all_clips)) =>
    /\ all_clips[1].kind = "title"
    /\ all_clips[Len(all_clips)].kind = "end"
    /\ \A j \in 2..(Len(all_clips) - 1) : all_clips[j].kind = "scene"
    /\ \A j, k \in 2..(Len(all_clips) - 1) :
         j < k => all_clips[j].scene < all_clips[k].scene
    /\ \A n \in (1..call.n) \ skipped : Cardinality(ClipsOf(all_clips, n)) = 1
    /\ CardsPlain(all_clips)

\* place of a clip in the fixed sequence: title, scenes 1..scene_count, end
ClipRank(clip, scene_count) ==
  IF clip.kind = "title" THEN 0
  ELSE IF clip.kind = "end" THEN scene_count + 1 ELSE clip.scene

\* C17, amended: the clips that could be created stand in the fixed sequence:
\* the title clip, if there is one, first, the end clip, if there is one,
\* last, the scene clips between them in strictly increasing scene number;
\* a skipped scene has no clip, a scene whose image clip could not be created
\* has none, every other scene has exactly one; the cards last three seconds
\* without audio.
C17_ClipOrderAmended ==
  (pc = "export" /\ ~not_enough_clips(all_clips)) =>
    /\ \A j, k \in 1..Len(all_clips) :
         j < k => ClipRank(all_clips[j], call.n) < ClipRank(all_clips[k], call.n)
    /\ \A n \in 1..call.n :
         Cardinality(ClipsOf(all_clips, n)) = IF n \in skipped \cup unloaded THEN 0 ELSE 1
    /\ CardsPlain(all_clips)

\* no title clip, the first scene's image clip not created, then the second
\* scene's clip and the end clip
C17_Witness ==
  /\ pc = "export"
  /\ unloaded = {1}
  /\ Len(all_clips) = 2
  /\ all_clips[1].kind = "scene" /\ all_clips[1].scene = 2
  /\ all_clips[2].kind = "end"

\* sub occurs in s when the case of the letters is disregarded
ContainsIgnoringCase(s, sub) ==
  \E n \in 0..(Len(s) - Len(sub)) :
    \A m \in 1..Len(sub) : lower_char(s[n + m]) = lower_char(sub[m])

\* s ends with tail
EndsWith(s, tail) ==
  Len(tail) <= Len(s) /\ SubSeq(s, Len(s) - Len(tail) + 1, Len(s)) = tail

\* C12: after enhance_visual_prompts has handled a scene, the scene's
\* visual_prompt contains main_character as a substring whatever the case of
\* the letters, and ends with "<art_style>, <color_palette>, consistent
\* character design"; its style_reference is "<art_style>, <color_palette>";
\* main_character was put in front only if the prompt did not contain it
\* already.  art_style and color_palette stand for the bible's values, or for
\* the defaults of lines 165-166 where the bible has none.
C12_PromptEnhanced ==
  LET main_character == main_character_of(prompts.visual_bible)
      style == art_style_of(prompts.visual_bible) \o Sep
                 \o color_palette_of(prompts.visual_bible)
  IN \A n \in 1..prompts.k :
       LET scene == prompts.scenes[n] IN
       /\ ContainsIgnoringCase(scene.visual_prompt, main_character)
       /\ EndsWith(scene.visual_prompt, style \o Sep \o Suffix)
       /\ scene.style_reference = style
       /\ ContainsIgnoringCase(scene.original_prompt, main_character) =>
            scene.visual_prompt = scene.original_prompt \o Sep \o style \o Sep \o Suffix

\* both scenes handled: the first prompt lacked the character, which was put
\* in front; the second held it in another case, and was left as it was; the
\* bible names no art style
C12_Witness ==
  /\ prompts.k = 2
  /\ prompts.visual_bible.main_character = << "A" >>
  /\ "art_style" \notin prompts.visual_bible.keys
  /\ prompts.scenes[1].original_prompt = << "b" >>
  /\ prompts.scenes[2].original_prompt = << "b", "a" >>
  /\ prompts.scenes[1].visual_prompt[1] = "A"
  /\ prompts.scenes[2].visual_prompt[1] = "b"

\* C21: when a call of generate_audio returns, the event loop the call made
\* has been closed, after a speech request that succeeded and after one that
\* failed, so that no loop of one call is left open for the next.
\* (Stated for runs on a complete document.)
C21_LoopClosed ==
  (CompleteDocument /\ call.fn = "generate_audio") => loop = "closed"

\* C25: make_video_simple returns no path and calls neither the concatenation
\* nor the export whenever fewer than two clips were built; it calls the
\* concatenation and the export at most once each, and only with at least two
\* clips.
C25_ExportOnlyWithTwoClips ==
  /\ exports.concatenate <= 1 /\ exports.write <= 1
  /\ exports.write <= exports.concatenate
  /\ (exports.concatenate > 0 => Len(all_clips) >= MinClips)
  /\ ((AssemblerReturned /\ call.ret # Raised /\ Len(all_clips) < MinClips) =>
        call.ret = None /\ exports = NoExports)

\* the assembler returned with the end clip alone
C25_Witness ==
  /\ pc = "returned"
  /\ call.outcome = "not_enough_clips"
  /\ Len(all_clips) = 1
  /\ all_clips[1].kind = "end"
  /\ exports = NoExports
  /\ results.status = "partial"

\* C24: when the assembly starts, the result lists agree with the registry:
\* for every position k of the scene list, the image of the list is the
\* registry's image of scene k, the audio of the list is not None exactly
\* when the registry has an audio of scene k, and then the two are the same
\* path; the registry has no key outside 1..number of scenes.
C24_ListsAgreeWithRegistry ==
  pc = "title_card" =>
    LET n == Len(actual_scenes(story_data)) IN
    /\ Len(results.images) = n /\ Len(results.audio) = n
    /\ \A k \in 1..n :
         /\ results.images[k] # None
         /\ results.images[k] = get_image(files, k)
         /\ (results.audio[k] # None <=> get_audio(files, k) # None)
         /\ results.audio[k] = get_audio(files, k)
    /\ DOMAIN files.images \subseteq 1..n
    /\ DOMAIN files.audio \subseteq 1..n

\* the assembly is about to start after two scenes: the first has no audio,
\* the second has one, registered from an empty file
C24_Witness ==
  /\ pc = "title_card"
  /\ Len(results.audio) = 2
  /\ results.audio[1] = None
  /\ results.audio[2] = NarrationPath(2)
  /\ call.fn = "generate_audio" /\ call.outcome = "empty"
  /\ DOMAIN files.images = {1, 2}

\* the base seed of run r, from the hash of its story idea
BaseSeed(r) == seeds.hash[r] % HashModulus

\* C22: in a run, the image of the scene at 0-based position i is asked for
\* with the seed base_seed + i, base_seed being derived once from the story
\* idea; the seeds of a run are pairwise distinct; two runs with the same
\* base seed and the same prompts make the same calls, prompt and seed, scene
\* by scene.  (The seeds are those handed to generate_image.)
C22_SeedsByPosition ==
  /\ \A r \in 1..2 :
       /\ \A k \in 1..Len(seeds.sent[r]) :
            /\ seeds.sent[r][k].seed = << BaseSeed(r) + (k - 1) >>
            /\ seeds.sent[r][k].prompt = seeds.prompts[r][k]
       /\ \A j, k \in 1..Len(seeds.sent[r]) :
            j # k => seeds.sent[r][j].seed # seeds.sent[r][k].seed
  /\ (BaseSeed(1) = BaseSeed(2) /\ seeds.prompts[1] = seeds.prompts[2]) =>
       \A k \in 1..Len(seeds.sent[2]) :
         /\ seeds.sent[2][k].prompt = seeds.sent[1][k].prompt
         /\ seeds.sent[2][k].seed = seeds.sent[1][k].seed

\* two runs through, on story ideas with different hashes and the same base
\* seed, on the same two prompts
C22_Witness ==
  /\ seeds.hash = << 1, HashModulus + 1 >>
  /\ seeds.prompts = << << "p", "q" >>, << "p", "q" >> >>
  /\ Len(seeds.sent[1]) = 2
  /\ seeds.sent[2] = seeds.sent[1]

\* C23: a call of generate_image with an integer seed, 0 included, asks the
\* image service with that seed as the seed parameter; the parameter is left
\* out only when the call had no seed.
C23_SeedSent ==
  LET Calls == {seeds.sent[1][k] : k \in 1..Len(seeds.sent[1])}
                 \cup {seeds.sent[2][k] : k \in 1..Len(seeds.sent[2])}
                 \cup {seeds.direct[k] : k \in 1..Len(seeds.direct)}
  IN \A request \in Calls :
       /\ request.seed # None => request.url.seed = request.seed
       /\ request.url.seed = None => request.seed = None
====
